---------------------------- MODULE Spec2Model ----------------------------
(***************************************************************************)
(* Model of src/Devr3/app.py.                                              *)
(*                                                                         *)
(* Python strings are sequences of one-character strings.  None and a      *)
(* missing dictionary key are the one-element sequences None and Absent,   *)
(* whose element is no character of the alphabet.                          *)
(*                                                                         *)
(* Two specifications:                                                     *)
(*   Spec       one execution of the module, top to bottom (lines 11-163); *)
(*   SpecCalls  one call of one function of the module, with arguments     *)
(*              drawn in the initial state, repeated in the same process   *)
(*              or after a restart of the interpreter.                     *)
(***************************************************************************)
EXTENDS Integers, Sequences, FiniteSets, TLC

\* ------------------------------------------------------------------ bounds
\* longest text drawn as an argument of the tag extractors
MaxLen == 3
\* most users in one GitHub response
MaxUsers == 2
\* string-hash seeds of the interpreter are 0..MaxHashSeed
MaxHashSeed == 1

\* ------------------------------------------------------- program constants
\* `len(word) > 2`
MinWordLen == 2
\* `response.status_code == 200`
HTTP_OK == 200

\* ------------------------------------------------------------ Python values
None == <<"None">>
Absent == <<"Absent">>

\* U0130 is LATIN CAPITAL LETTER I WITH DOT ABOVE, whose lowercase is the two
\* code points "i" U0307; "\t" and " " are whitespace.
Chars == {"a", "B", "U0130", " ", "\t"}

IsSpace(c) == c \in {" ", "\t"}

\* str.lower() of one character: a string, since lowercasing may lengthen
LowerChar(c) ==
  CASE c = "B" -> <<"b">>
    [] c = "U0130" -> <<"i", "U0307">>
    [] OTHER -> <<c>>

RECURSIVE Lower(_)
\* str.lower()
Lower(s) == IF s = <<>> THEN <<>> ELSE LowerChar(Head(s)) \o Lower(Tail(s))

RECURSIVE SplitFrom(_, _, _)
\* the words of s from position i on, cur being the word under construction
SplitFrom(s, i, cur) ==
  IF i > Len(s)
  THEN IF cur = <<>> THEN <<>> ELSE <<cur>>
  ELSE IF IsSpace(s[i])
       THEN IF cur = <<>>
            THEN SplitFrom(s, i + 1, <<>>)
            ELSE <<cur>> \o SplitFrom(s, i + 1, <<>>)
       ELSE SplitFrom(s, i + 1, Append(cur, s[i]))

\* str.split() without arguments: runs of whitespace separate, none at the ends
Split(s) == SplitFrom(s, 1, <<>>)

\* f"#{word}"
Hash(word) == <<"#">> \o word

RECURSIVE TagsOfWordsKeepsTwo(_)
\* TagsOfWords with `>=` for `>`
TagsOfWordsKeepsTwo(words) ==
  IF words = <<>> THEN <<>>
  ELSE IF Len(Head(words)) >= MinWordLen
       THEN <<Hash(Head(words))>> \o TagsOfWordsKeepsTwo(Tail(words))
       ELSE TagsOfWordsKeepsTwo(Tail(words))

RECURSIVE TagsOfWords(_)
\* [f"#{word}" for word in words if len(word) > 2]
TagsOfWords(words) ==
  IF words = <<>> THEN <<>>
  ELSE IF Len(Head(words)) > MinWordLen
       THEN <<Hash(Head(words))>> \o TagsOfWords(Tail(words))
       ELSE TagsOfWords(Tail(words))

RECURSIVE Join(_, _)
\* sep.join(items)
Join(sep, items) ==
  IF items = <<>> THEN <<>>
  ELSE IF Len(items) = 1 THEN Head(items)
       ELSE Head(items) \o sep \o Join(sep, Tail(items))

\* what a call does: it returns a value or raises
Return(v) == [raised |-> "", value |-> v]
Raise(exc) == [raised |-> exc, value |-> <<>>]

\* `not x` for a string or None
Falsy(x) == x = None \/ x = <<>>

\* extract_expertise_tags(bio)
extract_expertise_tags(bio) ==
  IF Falsy(bio) THEN Return(<<>>)
  ELSE Return(TagsOfWords(Split(Lower(bio))))

RECURSIVE Dedup(_)
\* the distinct elements of a list, in order of first occurrence
Dedup(l) ==
  IF l = <<>> THEN <<>>
  ELSE LET rest == Dedup(SubSeq(l, 1, Len(l) - 1))
           x == l[Len(l)]
       IN IF \E i \in 1..Len(rest) : rest[i] = x THEN rest ELSE Append(rest, x)

\* list(set(l)): the distinct elements, in the order the string hashes of this
\* process give; the hash seed differs from process to process
ListOfSet(l, seed) ==
  LET d == Dedup(l)
      n == Len(d)
  IN IF n = 0 THEN <<>>
     ELSE [i \in 1..n |-> d[((i - 1 + seed) % n) + 1]]

\* get_pr_insights(pr_title, pr_body) in a process whose hash seed is seed
get_pr_insights(pr_title, pr_body, seed) ==
  IF pr_title = None \/ pr_body = None
  THEN Raise("TypeError")
  ELSE Return(ListOfSet(TagsOfWords(Split(Lower(pr_title \o <<" ">> \o pr_body))), seed))

\* user.get('bio', "")
GetBio(user) == IF user.bio = Absent THEN <<>> ELSE user.bio

\* DocumentOf with the role tag before the name tag
DocumentOfRoleFirst(user) ==
  LET name == user.login
      role == user.role
      expertise_tags == extract_expertise_tags(GetBio(user)).value
      tags == <<Hash(role), Hash(name)>> \o expertise_tags
  IN [page_content |-> Join(<<" ">>, tags),
      metadata |-> [username |-> name, role |-> role, expertise |-> expertise_tags]]

\* the Document built for one user
DocumentOf(user) ==
  LET name == user.login
      role == user.role
      expertise_tags == extract_expertise_tags(GetBio(user)).value
      tags == <<Hash(name), Hash(role)>> \o expertise_tags
  IN [page_content |-> Join(<<" ">>, tags),
      metadata |-> [username |-> name, role |-> role, expertise |-> expertise_tags]]

\* prepare_documents(users)
prepare_documents(us) == [i \in 1..Len(us) |-> DocumentOf(us[i])]


\* ------------------------------------------------------------ GitHub fetch
Contributors == <<"c", "o", "n", "t", "r", "i", "b", "u", "t", "o", "r", "s">>
Reviewers == <<"r", "e", "v", "i", "e", "w", "e", "r", "s">>

\* user.get("bio", "") on a user of the response
ResponseBio(user) == IF user.bio = Absent THEN <<>> ELSE user.bio

\* fetch_github_users without the check of user_type: any other type is sent
\* to the collaborators endpoint
fetch_github_users_any_type(user_type, env, reply) ==
  IF Falsy(env.GITHUB_TOKEN) \/ Falsy(env.GITHUB_REPO_OWNER) \/ Falsy(env.GITHUB_REPO_NAME)
  THEN [raised |-> "", value |-> <<>>, sent |-> <<>>, out |-> <<"Missing GitHub credentials">>]
  ELSE LET url == IF user_type = Contributors THEN "contributors" ELSE "collaborators"
       IN IF reply.error
          THEN [raised |-> "RequestException", value |-> <<>>, sent |-> <<url>>, out |-> <<>>]
          ELSE IF reply.status_code = HTTP_OK
          THEN [raised |-> "",
                value |-> [i \in 1..Len(reply.json) |->
                             [login |-> reply.json[i].login,
                              bio |-> ResponseBio(reply.json[i]),
                              role |-> user_type]],
                sent |-> <<url>>, out |-> <<>>]
          ELSE [raised |-> "", value |-> <<>>, sent |-> <<url>>, out |-> <<"Failed to fetch">>]

\* fetch_github_users(user_type) with os.environ = env, when GitHub answers
\* reply: what it returns or raises, the requests it sent, what it printed
fetch_github_users(user_type, env, reply) ==
  IF Falsy(env.GITHUB_TOKEN) \/ Falsy(env.GITHUB_REPO_OWNER) \/ Falsy(env.GITHUB_REPO_NAME)
  THEN [raised |-> "", value |-> <<>>, sent |-> <<>>, out |-> <<"Missing GitHub credentials">>]
  ELSE IF user_type # Contributors /\ user_type # Reviewers
  THEN [raised |-> "", value |-> <<>>, sent |-> <<>>, out |-> <<"Invalid user type">>]
  ELSE LET url == IF user_type = Contributors THEN "contributors" ELSE "collaborators"
       IN IF reply.error
          THEN [raised |-> "RequestException", value |-> <<>>, sent |-> <<url>>, out |-> <<>>]
          ELSE IF reply.status_code = HTTP_OK
          THEN [raised |-> "",
                value |-> [i \in 1..Len(reply.json) |->
                             [login |-> reply.json[i].login,
                              bio |-> ResponseBio(reply.json[i]),
                              role |-> user_type]],
                sent |-> <<url>>, out |-> <<>>]
          ELSE [raised |-> "", value |-> <<>>, sent |-> <<url>>, out |-> <<"Failed to fetch">>]

\* --------------------------------------------------------- argument domains
RECURSIVE SeqsUpTo(_, _)
\* the sequences over S of length at most n
SeqsUpTo(S, n) ==
  IF n = 0 THEN {<<>>}
  ELSE LET shorter == SeqsUpTo(S, n - 1)
       IN shorter \cup {Append(q, x) : q \in {r \in shorter : Len(r) = n - 1}, x \in S}

Texts == SeqsUpTo(Chars, MaxLen)

\* second operands: texts long enough to hold a word that becomes a tag
Phrases == {None, <<>>, <<"B">>, <<"a", "a", "a">>, <<"B", "a", "a">>, <<"a", "U0130">>}

\* bios: every short text, None, and two phrases joined by a blank
Bios == Texts \cup {None}
          \cup {p \o <<" ">> \o q : p \in Phrases \ {None}, q \in Phrases \ {None}}

\* (pr_title, pr_body)
PrPairs == ((Texts \cup {None}) \X Phrases) \cup (Phrases \X (Texts \cup {None}))

HashSeeds == 0..MaxHashSeed

EnvValues == {None, <<>>, <<"x">>}
Environs == [GITHUB_TOKEN : EnvValues, GITHUB_REPO_OWNER : EnvValues, GITHUB_REPO_NAME : EnvValues]

Logins == {<<>>, <<"a", "l">>, <<"b", "o">>}
SampleBio == <<"B", "a", " ", "B", "a", "a", "\t", "a", " ", "b", "a", "a">>
ResponseUsers == [login : Logins, bio : {Absent, None, SampleBio}]

\* GitHub lists a user once per endpoint, and every user it lists has a login
DistinctLogins(l) == \A i, j \in 1..Len(l) : i # j => l[i].login # l[j].login
ResponseLists == {l \in SeqsUpTo(ResponseUsers, MaxUsers) : DistinctLogins(l)}

NoReply == [error |-> FALSE, status_code |-> 0, json |-> <<>>]
Replies == {[error |-> TRUE, status_code |-> 0, json |-> <<>>],
            [error |-> FALSE, status_code |-> 201, json |-> <<>>],
            [error |-> FALSE, status_code |-> 404, json |-> <<>>]}
             \cup {[error |-> FALSE, status_code |-> HTTP_OK, json |-> l] : l \in ResponseLists}

UserTypes == {Contributors, Reviewers, <<"b", "o", "t", "s">>}

Candidates == [login : {<<>>, <<"a", "l">>}, role : {<<>>, Contributors, Reviewers},
               bio : {Absent, None, SampleBio}]
CandidateLists == SeqsUpTo(Candidates, MaxUsers)

\* ------------------------------------------------------------------- state
VARIABLES
  \* one execution of the module
  pc,            \* the statement the interpreter is at
  environ,       \* os.environ after load_dotenv()
  embeddings,    \* the global embeddings: "unbound" or "loaded"
  contributors,  \* the value of the first fetch_github_users call of line 152
  users,         \* the global users
  user_docs,     \* the global user_docs
  building,      \* the documents FAISS.from_documents has embedded so far
  vector_store,  \* the global vector_store
  stdout,        \* what has been printed
  requests,      \* the GET requests sent
  exit_code,     \* the status the process ended with, -1 while it runs
  trace,         \* the phases completed, in order
  \* one call of one function
  args,          \* the function called and its arguments
  hashSeed,      \* the string-hash seed of the process
  ret            \* what the last call returned or raised

runVars == <<pc, environ, embeddings, contributors, users, user_docs, building,
             vector_store, stdout, requests, exit_code, trace>>
callVars == <<args, hashSeed, ret>>
vars == <<pc, environ, embeddings, contributors, users, user_docs, building,
          vector_store, stdout, requests, exit_code, trace, args, hashSeed, ret>>

Unbound == [state |-> "unbound", docs |-> <<>>]
NoneStore == [state |-> "None", docs |-> <<>>]
Index(docs) == [state |-> "FAISS", docs |-> docs]

NoArgs == [fn |-> "", bio |-> <<>>, pr_title |-> <<>>, pr_body |-> <<>>, users |-> <<>>,
           user_type |-> <<>>, environ |-> [GITHUB_TOKEN |-> None, GITHUB_REPO_OWNER |-> None,
                                            GITHUB_REPO_NAME |-> None],
           reply |-> NoReply]
NoRet == [done |-> FALSE, raised |-> "", value |-> <<>>, sent |-> <<>>, out |-> <<>>]

\* ------------------------------------------------ one execution of the module
RunInit ==
  /\ pc = "embeddings"
  /\ environ \in Environs
  /\ embeddings = "unbound"
  /\ contributors = <<>>
  /\ users = <<>>
  /\ user_docs = <<>>
  /\ building = <<>>
  /\ vector_store = Unbound
  /\ stdout = <<>>
  /\ requests = <<>>
  /\ exit_code = -1
  /\ trace = <<>>

\* lines 15-16: the model loads
LoadEmbeddings ==
  /\ pc = "embeddings"
  /\ embeddings' = "loaded"
  /\ trace' = Append(trace, "load_embeddings")
  /\ pc' = "supabase"
  /\ UNCHANGED <<environ, contributors, users, user_docs, building, vector_store, stdout,
                 requests, exit_code>>
  /\ UNCHANGED callVars

\* lines 17-19: loading raises
LoadEmbeddingsFails ==
  /\ pc = "embeddings"
  /\ stdout' = Append(stdout, "Error loading embeddings")
  /\ exit_code' = 1
  /\ pc' = "exited"
  /\ UNCHANGED <<environ, embeddings, contributors, users, user_docs, building, vector_store,
                 requests, trace>>
  /\ UNCHANGED callVars

\* lines 22-27
SupabaseConnects ==
  /\ pc = "supabase"
  /\ stdout' = Append(stdout, "Supabase connection successful")
  /\ pc' = "fetch_contributors"
  /\ UNCHANGED <<environ, embeddings, contributors, users, user_docs, building, vector_store,
                 requests, exit_code, trace>>
  /\ UNCHANGED callVars

\* lines 28-30
SupabaseFails ==
  /\ pc = "supabase"
  /\ stdout' = Append(stdout, "Supabase connection failed")
  /\ exit_code' = 1
  /\ pc' = "exited"
  /\ UNCHANGED <<environ, embeddings, contributors, users, user_docs, building, vector_store,
                 requests, trace>>
  /\ UNCHANGED callVars

\* an exception no handler catches ends the process
Uncaught ==
  /\ exit_code' = 1
  /\ pc' = "traceback"

\* line 24: create_client raises, outside any try
SupabaseClientRaises ==
  /\ pc = "supabase"
  /\ Uncaught
  /\ UNCHANGED <<environ, embeddings, contributors, users, user_docs, building, vector_store,
                 stdout, requests, trace>>
  /\ UNCHANGED callVars

\* line 152, left operand
FetchContributors ==
  /\ pc = "fetch_contributors"
  /\ \E reply \in Replies :
       LET r == fetch_github_users(Contributors, environ, reply)
       IN /\ requests' = requests \o r.sent
          /\ stdout' = stdout \o r.out
          /\ IF r.raised # ""
             THEN Uncaught /\ UNCHANGED <<contributors, trace>>
             ELSE /\ contributors' = r.value
                  /\ trace' = Append(trace, "fetch_contributors")
                  /\ pc' = "fetch_reviewers"
                  /\ UNCHANGED exit_code
  /\ UNCHANGED <<environ, embeddings, users, user_docs, building, vector_store>>
  /\ UNCHANGED callVars

\* line 152, right operand and the assignment
FetchReviewers ==
  /\ pc = "fetch_reviewers"
  /\ \E reply \in Replies :
       LET r == fetch_github_users(Reviewers, environ, reply)
       IN /\ requests' = requests \o r.sent
          /\ stdout' = stdout \o r.out
          /\ IF r.raised # ""
             THEN Uncaught /\ UNCHANGED <<users, trace>>
             ELSE /\ users' = contributors \o r.value
                  /\ trace' = Append(trace, "fetch_reviewers")
                  /\ pc' = "if_users"
                  /\ UNCHANGED exit_code
  /\ UNCHANGED <<environ, embeddings, contributors, user_docs, building, vector_store>>
  /\ UNCHANGED callVars

\* lines 153-154
PrepareDocuments ==
  /\ pc = "if_users"
  /\ users # <<>>
  /\ user_docs' = prepare_documents(users)
  /\ trace' = Append(trace, "prepare_documents")
  /\ pc' = "create_vector_store"
  /\ UNCHANGED <<environ, embeddings, contributors, users, building, vector_store, stdout,
                 requests, exit_code>>
  /\ UNCHANGED callVars

\* lines 157-159
SkipVectorStore ==
  /\ pc = "if_users"
  /\ users = <<>>
  /\ stdout' = Append(stdout, "Skipping vector store creation")
  /\ vector_store' = NoneStore
  /\ pc' = "main_guard"
  /\ UNCHANGED <<environ, embeddings, contributors, users, user_docs, building, requests,
                 exit_code, trace>>
  /\ UNCHANGED callVars

\* line 39: FAISS.from_documents embeds the next document
EmbedDocument ==
  /\ pc = "create_vector_store"
  /\ Len(building) < Len(user_docs)
  /\ building' = Append(building, user_docs[Len(building) + 1])
  /\ UNCHANGED <<pc, environ, embeddings, contributors, users, user_docs, vector_store, stdout,
                 requests, exit_code, trace>>
  /\ UNCHANGED callVars

\* EmbedFails leaving the documents embedded so far as the index
EmbedFailsKeepsPartial ==
  /\ pc = "create_vector_store"
  /\ Len(building) < Len(user_docs)
  /\ stdout' = Append(stdout, "Error initializing FAISS vector store")
  /\ vector_store' = Index(building)
  /\ trace' = Append(trace, "create_vector_store")
  /\ pc' = "print_created"
  /\ UNCHANGED <<environ, embeddings, contributors, users, user_docs, building, requests,
                 exit_code>>
  /\ UNCHANGED callVars

\* lines 40-42 and the assignment of line 155: embedding raises
EmbedFails ==
  /\ pc = "create_vector_store"
  /\ Len(building) < Len(user_docs)
  /\ stdout' = Append(stdout, "Error initializing FAISS vector store")
  /\ vector_store' = NoneStore
  /\ trace' = Append(trace, "create_vector_store")
  /\ pc' = "print_created"
  /\ UNCHANGED <<environ, embeddings, contributors, users, user_docs, building, requests,
                 exit_code>>
  /\ UNCHANGED callVars

\* line 39 returns and line 155 assigns
CreateVectorStoreReturns ==
  /\ pc = "create_vector_store"
  /\ Len(building) = Len(user_docs)
  /\ vector_store' = Index(building)
  /\ trace' = Append(trace, "create_vector_store")
  /\ pc' = "print_created"
  /\ UNCHANGED <<environ, embeddings, contributors, users, user_docs, building, stdout,
                 requests, exit_code>>
  /\ UNCHANGED callVars

\* line 156
PrintCreated ==
  /\ pc = "print_created"
  /\ stdout' = Append(stdout, "Vector store successfully created.")
  /\ pc' = "main_guard"
  /\ UNCHANGED <<environ, embeddings, contributors, users, user_docs, building, vector_store,
                 requests, exit_code, trace>>
  /\ UNCHANGED callVars

\* lines 161-163, run as a script
AppRun ==
  /\ pc = "main_guard"
  /\ trace' = Append(trace, "app_run")
  /\ pc' = "serving"
  /\ UNCHANGED <<environ, embeddings, contributors, users, user_docs, building, vector_store,
                 stdout, requests, exit_code>>
  /\ UNCHANGED callVars

\* line 161, imported as a module
Imported ==
  /\ pc = "main_guard"
  /\ pc' = "imported"
  /\ UNCHANGED <<environ, embeddings, contributors, users, user_docs, building, vector_store,
                 stdout, requests, exit_code, trace>>
  /\ UNCHANGED callVars

Next ==
  \/ LoadEmbeddings
  \/ LoadEmbeddingsFails
  \/ SupabaseConnects
  \/ SupabaseFails
  \/ SupabaseClientRaises
  \/ FetchContributors
  \/ FetchReviewers
  \/ PrepareDocuments
  \/ SkipVectorStore
  \/ EmbedDocument
  \/ EmbedFails
  \/ CreateVectorStoreReturns
  \/ PrintCreated
  \/ AppRun
  \/ Imported

Init == RunInit /\ args = NoArgs /\ hashSeed = 0 /\ ret = NoRet

Spec == Init /\ [][Next]_vars

\* ---------------------------------------------------- one call of a function
ExtractArgs == {[NoArgs EXCEPT !.fn = "extract_expertise_tags", !.bio = b] : b \in Bios}
PrArgs == {[NoArgs EXCEPT !.fn = "get_pr_insights", !.pr_title = p[1], !.pr_body = p[2]] :
             p \in PrPairs}
PrepareArgs == {[NoArgs EXCEPT !.fn = "prepare_documents", !.users = l] : l \in CandidateLists}
FetchArgs == {[NoArgs EXCEPT !.fn = "fetch_github_users", !.user_type = t, !.environ = e,
                             !.reply = r] : t \in UserTypes, e \in Environs, r \in Replies}

CallArgs ==
  /\ args \in ExtractArgs \cup PrArgs \cup PrepareArgs \cup FetchArgs
  /\ hashSeed \in HashSeeds
  /\ ret = NoRet

\* what the caller sees of a call that returned or raised
Done(r) == [done |-> TRUE, raised |-> r.raised, value |-> r.value, sent |-> <<>>, out |-> <<>>]

CallExtractExpertiseTags ==
  /\ args.fn = "extract_expertise_tags"
  /\ ret' = Done(extract_expertise_tags(args.bio))
  /\ UNCHANGED <<args, hashSeed>>
  /\ UNCHANGED runVars

CallGetPrInsights ==
  /\ args.fn = "get_pr_insights"
  /\ ret' = Done(get_pr_insights(args.pr_title, args.pr_body, hashSeed))
  /\ UNCHANGED <<args, hashSeed>>
  /\ UNCHANGED runVars

CallPrepareDocuments ==
  /\ args.fn = "prepare_documents"
  /\ ret' = Done(Return(prepare_documents(args.users)))
  /\ UNCHANGED <<args, hashSeed>>
  /\ UNCHANGED runVars

CallFetchGithubUsers ==
  /\ args.fn = "fetch_github_users"
  /\ LET r == fetch_github_users(args.user_type, args.environ, args.reply)
     IN ret' = [done |-> TRUE, raised |-> r.raised, value |-> r.value, sent |-> r.sent,
                out |-> r.out]
  /\ UNCHANGED <<args, hashSeed>>
  /\ UNCHANGED runVars

\* the interpreter is started again: PYTHONHASHSEED is drawn anew, and the
\* observer keeps the result of the last call
Restart ==
  /\ hashSeed' \in HashSeeds \ {hashSeed}
  /\ UNCHANGED <<args, ret>>
  /\ UNCHANGED runVars

NextCalls ==
  \/ CallExtractExpertiseTags
  \/ CallGetPrInsights
  \/ CallPrepareDocuments
  \/ CallFetchGithubUsers
  \/ Restart

InitCalls ==
  /\ CallArgs
  /\ pc = "idle"
  /\ environ = NoArgs.environ
  /\ embeddings = "unbound"
  /\ contributors = <<>>
  /\ users = <<>>
  /\ user_docs = <<>>
  /\ building = <<>>
  /\ vector_store = Unbound
  /\ stdout = <<>>
  /\ requests = <<>>
  /\ exit_code = -1
  /\ trace = <<>>

SpecCalls == InitCalls /\ [][NextCalls]_vars

\* ------------------------------------------------------------------ claims
IsTagCall == args.fn \in {"extract_expertise_tags", "get_pr_insights"}
Returned == ret.done /\ ret.raised = ""

\* the text a tag extractor is given: the bio, or title and body with a blank
InputText ==
  IF args.fn = "extract_expertise_tags"
  THEN IF args.bio = None THEN <<>> ELSE args.bio
  ELSE args.pr_title \o <<" ">> \o args.pr_body

\* the whitespace-delimited tokens of s: its maximal runs without whitespace
Tokens(s) ==
  {SubSeq(s, i, j) : <<i, j>> \in
     {q \in (1..Len(s)) \X (1..Len(s)) :
        /\ q[1] <= q[2]
        /\ \A k \in q[1]..q[2] : ~IsSpace(s[k])
        /\ (q[1] = 1 \/ IsSpace(s[q[1] - 1]))
        /\ (q[2] = Len(s) \/ IsSpace(s[q[2] + 1]))}}

LoweredTokens(s) == {Lower(w) : w \in Tokens(s)}

NoDuplicates(l) == \A i, j \in 1..Len(l) : l[i] = l[j] => i = j

\* C1: every tag a tag extractor returns is "#" followed by a lowercased
\* whitespace-delimited token of the input that is longer than 2, so the tag is
\* at least 4 long; every such token yields its tag, and no token of length 2
\* or less does.
C1_TagsAreLongTokens ==
  (IsTagCall /\ Returned) =>
    LET toks == LoweredTokens(InputText)
        tags == {ret.value[i] : i \in 1..Len(ret.value)}
    IN /\ \A t \in tags : /\ Len(t) >= 4
                          /\ t[1] = "#"
                          /\ \E w \in toks : Len(w) > 2 /\ t = <<"#">> \o w
       /\ \A w \in toks : Len(w) > 2 => (<<"#">> \o w) \in tags
       /\ \A w \in toks : Len(w) <= 2 => (<<"#">> \o w) \notin tags

\* C1 witness: a call returned a tag for an input that also holds a short token
C1_Witness ==
  /\ IsTagCall /\ Returned
  /\ ret.value # <<>>
  /\ \E w \in LoweredTokens(InputText) : Len(w) <= 2

\* C2: tag extraction never fails on empty or null input: an empty or null bio
\* (also a null or absent bio of a user given to prepare_documents) and a PR
\* whose title or body is empty or null raise no error, and the tags are empty
\* when the input holds no text at all.
C2_EmptyOrNullNeverFails ==
  /\ (ret.done /\ args.fn = "extract_expertise_tags" /\ Falsy(args.bio))
       => (ret.raised = "" /\ ret.value = <<>>)
  /\ (ret.done /\ args.fn = "get_pr_insights" /\ (Falsy(args.pr_title) \/ Falsy(args.pr_body)))
       => /\ ret.raised = ""
          /\ (Falsy(args.pr_title) /\ Falsy(args.pr_body)) => ret.value = <<>>
  /\ (ret.done /\ args.fn = "prepare_documents")
       => /\ ret.raised = ""
          /\ \A i \in 1..Len(args.users) :
               args.users[i].bio \in {None, Absent, <<>>}
                 => ret.value[i].metadata.expertise = <<>>

\* C3: tag extraction deduplicates: no tag occurs twice in the result of
\* extract_expertise_tags or get_pr_insights, nor in the expertise list of a
\* document prepare_documents builds.
C3_NoDuplicateTags ==
  /\ (IsTagCall /\ Returned) => NoDuplicates(ret.value)
  /\ (args.fn = "prepare_documents" /\ Returned)
       => \A i \in 1..Len(ret.value) : NoDuplicates(ret.value[i].metadata.expertise)

RECURSIVE BlankBeforeEach(_)
\* every tag of the list preceded by one blank
BlankBeforeEach(tags) ==
  IF tags = <<>> THEN <<>>
  ELSE BlankBeforeEach(SubSeq(tags, 1, Len(tags) - 1)) \o <<" ">> \o tags[Len(tags)]

\* C4: prepare_documents builds one document per candidate, in order; its
\* page_content is "#"+login, "#"+role and then the tags of the bio, joined by
\* single blanks, and its metadata carries the candidate's login and role.
C4_DocumentOfCandidate ==
  (args.fn = "prepare_documents" /\ ret.done) =>
    /\ ret.raised = ""
    /\ Len(ret.value) = Len(args.users)
    /\ \A i \in 1..Len(args.users) :
         LET u == args.users[i]
             d == ret.value[i]
             bio == IF u.bio = Absent THEN <<>> ELSE u.bio
         IN /\ d.metadata.username = u.login
            /\ d.metadata.role = u.role
            /\ d.metadata.expertise = extract_expertise_tags(bio).value
            /\ d.page_content = <<"#">> \o u.login \o <<" ", "#">> \o u.role
                                  \o BlankBeforeEach(d.metadata.expertise)

\* C4 witness: two documents were built, one of them with tags from its bio
C4_Witness ==
  /\ args.fn = "prepare_documents" /\ ret.done
  /\ Len(ret.value) = 2
  /\ \E i \in 1..2 : ret.value[i].metadata.expertise # <<>>
  /\ ret.value[1].metadata.username # <<>>
  /\ ret.value[1].metadata.role # <<>>

Prepared == pc \in {"create_vector_store", "print_created", "main_guard", "serving", "imported"}
                /\ users # <<>>

\* C5: a candidate whose login or role is empty is skipped: no document is
\* built for it, and the other candidates of the call are built.
C5_InvalidCandidateSkipped ==
  Prepared =>
    LET valid == SelectSeq(users, LAMBDA u : u.login # <<>> /\ u.role # <<>>)
    IN /\ Len(user_docs) = Len(valid)
       /\ \A i \in 1..Len(user_docs) : /\ user_docs[i].metadata.username = valid[i].login
                                       /\ user_docs[i].metadata.username # <<>>
                                       /\ user_docs[i].metadata.role # <<>>

Printed(m) == \E i \in 1..Len(stdout) : stdout[i] = m

\* C6: an embedding failure is fatal: after the model failed to load the
\* process has exited, and after embedding failed in create_vector_store the
\* program neither reports the vector store as created nor starts serving.
C6_EmbeddingFailureIsFatal ==
  /\ Printed("Error loading embeddings") => (pc = "exited" /\ exit_code = 1)
  /\ Printed("Error initializing FAISS vector store")
       => (~Printed("Vector store successfully created.") /\ pc # "serving")

Rank(e) ==
  CASE e = "load_embeddings" -> 1
    [] e = "fetch_contributors" -> 2
    [] e = "fetch_reviewers" -> 3
    [] e = "prepare_documents" -> 4
    [] e = "create_vector_store" -> 5
    [] e = "app_run" -> 6

InTrace(e) == \E i \in 1..Len(trace) : trace[i] = e

\* C7: model loading, the two fetches, document preparation and index
\* construction happen at most once each and in that order; serving starts
\* only after them; vector_store is never a partially built index: it is
\* unassigned, None, or the index of all prepared documents, which are the
\* documents of all fetched users, and it is assigned when serving starts.
C7_SinglePassThenServe ==
  /\ \A i, j \in 1..Len(trace) : i < j => Rank(trace[i]) < Rank(trace[j])
  /\ pc = "serving" <=> InTrace("app_run")
  /\ InTrace("app_run") =>
       /\ InTrace("load_embeddings") /\ InTrace("fetch_contributors") /\ InTrace("fetch_reviewers")
       /\ users # <<>> => (InTrace("prepare_documents") /\ InTrace("create_vector_store"))
       /\ vector_store.state \in {"None", "FAISS"}
  /\ vector_store.state = "FAISS" =>
       /\ vector_store.docs = user_docs
       /\ Len(user_docs) = Len(users)
       /\ users # <<>>
  /\ vector_store.state = "None" => vector_store.docs = <<>>

\* C7 witness: serving has started with an index of two documents
C7_Witness ==
  /\ pc = "serving"
  /\ vector_store.state = "FAISS"
  /\ Len(vector_store.docs) = 2

\* C8: the documents handed to create_vector_store hold at most one document
\* per candidate name.
C8_OneDocumentPerName ==
  Prepared =>
    \A i, j \in 1..Len(user_docs) :
      user_docs[i].metadata.username = user_docs[j].metadata.username => i = j

\* C9: two invocations of get_pr_insights with the same title and body, in the
\* same process or in two, return the same tags in the same order.
C9_SameTagsSameOrder ==
  [][(args.fn = "get_pr_insights" /\ ret.done /\ ret'.done) => ret'.value = ret.value]_vars

Configured(v) == v # None /\ Len(v) > 0

\* C10: fetch_github_users sends a request only when token, owner and name are
\* configured and user_type is contributors or reviewers; otherwise, and on a
\* status other than 200, it returns [] without raising; a non-empty result has
\* one entry per user of the response, in order, with role = user_type.
C10_FetchContract ==
  (args.fn = "fetch_github_users" /\ ret.done) =>
    LET eligible == /\ Configured(args.environ.GITHUB_TOKEN)
                    /\ Configured(args.environ.GITHUB_REPO_OWNER)
                    /\ Configured(args.environ.GITHUB_REPO_NAME)
                    /\ args.user_type \in {Contributors, Reviewers}
    IN /\ ret.sent # <<>> => eligible
       /\ ~eligible => (ret.raised = "" /\ ret.value = <<>> /\ ret.sent = <<>>)
       /\ (eligible /\ ~args.reply.error /\ args.reply.status_code # 200)
            => (ret.raised = "" /\ ret.value = <<>>)
       /\ ret.value # <<>> =>
            /\ Len(ret.value) = Len(args.reply.json)
            /\ \A i \in 1..Len(ret.value) : /\ ret.value[i].login = args.reply.json[i].login
                                            /\ ret.value[i].role = args.user_type

\* C10 witness: a fetch returned the two users of the response
C10_Witness ==
  /\ args.fn = "fetch_github_users" /\ ret.done
  /\ Len(ret.value) = 2
  /\ ret.sent # <<>>

=============================================================================
